---- MODULE Spec2Model ----
(***************************************************************************)
(* A model of src/main.py: an in-memory FAT-style volume.  The state is    *)
(* the three module-level globals FAT, ROOT and HDD, the first line the    *)
(* last command printed (out) and the number of commands read (ncmd).      *)
(* Every handler is an operator from a volume to a volume, translated      *)
(* statement by statement; the actions apply the handlers to inputs drawn  *)
(* from small sets.                                                        *)
(*                                                                         *)
(* Python lists and bytearrays are 0-based.  FAT is a function on          *)
(* 0..TOTAL_UAs-1, so unit indices are the program's.  HDD, ROOT and       *)
(* contents are TLA+ sequences (1-based); every slice goes through         *)
(* PySlice / PySliceAssign, which take the program's 0-based offsets.      *)
(* findFileIndex returns the 1-based position in ROOT, and 0 for None.     *)
(***************************************************************************)
EXTENDS Integers, Sequences, FiniteSets, TLC

(***************************************************************************)
(* Geometry.  The program's values are UA = 16, UAs_for_FAT = 512,         *)
(* UAs_for_ROOT = 64 and TOTAL_UAs = 4096; the model scales them down.     *)
(* The reserved prefix is kept longer than the largest sentinel (BAD = 4), *)
(* as it is in the program (576 > 4), so that no allocatable unit index    *)
(* coincides with a sentinel value.                                        *)
(***************************************************************************)
UA == 2
UAs_for_FAT == 3
UAs_for_ROOT == 2
PoolUAs == 3
TOTAL_UAs == UAs_for_FAT + UAs_for_ROOT + PoolUAs
HDD_SIZE == TOTAL_UAs * UA

\* Largest size a CREATE command of the model asks for.
MaxSize == 3

\* Number of commands the command loop of the model reads.
MaxCmds == 5

FREE == 0
FAT_RESERVED == 1
ROOT_RESERVED == 2
EOF == 3
BAD == 4

\* Field widths of class File.
NameWidth == 8
ExtWidth == 3
Mask16 == 65535
Mask8 == 255

VARIABLES FAT, ROOT, HDD, out, ncmd

vars == <<FAT, ROOT, HDD, out, ncmd>>

Units == 0 .. (TOTAL_UAs - 1)
Pool == (UAs_for_FAT + UAs_for_ROOT) .. (TOTAL_UAs - 1)

Min(a, b) == IF a < b THEN a ELSE b
Max(a, b) == IF a > b THEN a ELSE b

(***************************************************************************)
(* Python slicing for 0 <= a, 0 <= b: both ends are clamped to the length, *)
(* and an assignment replaces the clamped range by the whole right-hand    *)
(* side, whatever its length (a bytearray grows or shrinks).               *)
(***************************************************************************)
PySlice(s, a, b) ==
    LET lo == Min(a, Len(s))
        hi == Max(lo, Min(b, Len(s)))
    IN  SubSeq(s, lo + 1, hi)

PySliceAssign(s, a, b, c) ==
    LET lo == Min(a, Len(s))
        hi == Max(lo, Min(b, Len(s)))
    IN  SubSeq(s, 1, lo) \o c \o SubSeq(s, hi + 1, Len(s))

RECURSIVE Repeat(_, _)
Repeat(s, k) == IF k <= 0 THEN <<>> ELSE s \o Repeat(s, k - 1)

\* Mutant of Ceil: one unit too many when size is a multiple of the unit size.
Ceil_RoundsPastExact(size, unit) == (size \div unit) + 1

\* math.ceil(size / UA) for size >= 0
Ceil(size, unit) == (size + unit - 1) \div unit

(***************************************************************************)
(* class File                                                              *)
(***************************************************************************)
File(name, extension, size, startUA, attr) ==
    [ name      |-> SubSeq(name, 1, Min(NameWidth, Len(name))),
      extension |-> SubSeq(extension, 1, Min(ExtWidth, Len(extension))),
      size      |-> size % (Mask16 + 1),
      startUA   |-> startUA % (Mask16 + 1),
      attr      |-> attr % (Mask8 + 1) ]

(***************************************************************************)
(* generateContent: bytes are their ASCII codes.                           *)
(***************************************************************************)
ALFA_SOURCE == [i \in 1 .. 26 |-> 96 + i]
NUM_SOURCE == [i \in 1 .. 10 |-> 47 + i]
HEX_SOURCE == NUM_SOURCE \o [i \in 1 .. 6 |-> 64 + i]

generateContent(length, mode) ==
    IF mode \notin {"-ALFA", "-NUM", "-HEX"}
    THEN <<>>
    ELSE LET source == IF mode = "-ALFA" THEN ALFA_SOURCE
                       ELSE IF mode = "-NUM" THEN NUM_SOURCE
                       ELSE HEX_SOURCE
             repeated == Repeat(source, (length \div Len(source)) + 1)
         IN  PySlice(repeated, 0, length)

(***************************************************************************)
(* splitFileName: None, None without a dot; otherwise the parts around the *)
(* dot.  (With two or more dots the two-target unpacking raises            *)
(* ValueError and the program ends; the model's file names have at most    *)
(* one dot.)                                                               *)
(***************************************************************************)
DotAt(fileName) == {i \in 1 .. Len(fileName) : SubSeq(fileName, i, i) = "."}

splitFileName(fileName) ==
    IF DotAt(fileName) = {}
    THEN [none |-> TRUE, name |-> "", extension |-> ""]
    ELSE LET d == CHOOSE i \in DotAt(fileName) : \A j \in DotAt(fileName) : i <= j
         IN  [none |-> FALSE,
              name |-> SubSeq(fileName, 1, d - 1),
              extension |-> SubSeq(fileName, d + 1, Len(fileName))]

\* Mutant of findFileIndex: the scan keeps the last match.
findFileIndex_LastMatch(root, name, extension) ==
    LET hits == {i \in 1 .. Len(root) :
                    root[i].name = name /\ root[i].extension = extension}
    IN  IF hits = {} THEN 0 ELSE CHOOSE i \in hits : \A j \in hits : i >= j

\* findFileIndex: position of the first match, 0 for None
findFileIndex(root, name, extension) ==
    LET hits == {i \in 1 .. Len(root) :
                    root[i].name = name /\ root[i].extension = extension}
    IN  IF hits = {} THEN 0 ELSE CHOOSE i \in hits : \A j \in hits : i <= j

(***************************************************************************)
(* allocateUAsAndWrite                                                     *)
(***************************************************************************)
RECURSIVE AscendingFrom(_, _)
AscendingFrom(S, lo) ==
    IF \A x \in S : x < lo THEN <<>>
    ELSE IF lo \in S THEN <<lo>> \o AscendingFrom(S, lo + 1)
    ELSE AscendingFrom(S, lo + 1)

\* Mutant of FreeUAs: the FREE test is forgotten.
FreeUAs_IgnoresState(fat) == AscendingFrom(Pool, UAs_for_FAT + UAs_for_ROOT)

\* Mutant of FreeUAs: the pool is scanned from its top.
FreeUAs_Descending(fat) ==
    LET up == AscendingFrom({i \in Pool : fat[i] = FREE}, UAs_for_FAT + UAs_for_ROOT)
    IN  [k \in 1 .. Len(up) |-> up[Len(up) + 1 - k]]

\* line 82: the free units of the pool, in ascending order
FreeUAs(fat) == AscendingFrom({i \in Pool : fat[i] = FREE}, UAs_for_FAT + UAs_for_ROOT)

\* Mutant of LinkValue: a unit is linked to itself, not to its successor.
LinkValue_LinksSelf(allocated, i, nr_UAs) ==
    IF i < nr_UAs - 1 THEN allocated[i + 1] ELSE EOF

\* Mutant of LinkValue: the loop index is stored, not the unit it names.
LinkValue_LoopIndex(allocated, i, nr_UAs) ==
    IF i < nr_UAs - 1 THEN i + 1 ELSE EOF

\* lines 94-98: what unit allocated[i] is set to
LinkValue(allocated, i, nr_UAs) ==
    IF i < nr_UAs - 1 THEN allocated[i + 2] ELSE EOF

\* line 92: the write of block i of content into unit allocated[i]
WriteUA(hdd, content, allocated, i) ==
    LET start == allocated[i + 1] * UA
        end == start + UA
    IN  PySliceAssign(hdd, start, end, PySlice(content, i * UA, (i + 1) * UA))

\* lines 88-98: iterations i .. nr_UAs-1 of the loop
RECURSIVE AllocLoop(_, _, _, _, _, _)
AllocLoop(fat, hdd, content, allocated, i, nr_UAs) ==
    IF i >= nr_UAs THEN [FAT |-> fat, HDD |-> hdd]
    ELSE AllocLoop([fat EXCEPT ![allocated[i + 1]] = LinkValue(allocated, i, nr_UAs)],
                   WriteUA(hdd, content, allocated, i),
                   content, allocated, i + 1, nr_UAs)

\* Mutant of allocateUAsAndWrite: the space test comes after the writes.
allocateUAsAndWrite_WritesFirst(fat, hdd, content, nr_UAs) ==
    LET free_UAs == FreeUAs(fat)
        allocated == SubSeq(free_UAs, 1, Min(nr_UAs, Len(free_UAs)))
        r == AllocLoop(fat, hdd, content, allocated, 0, Len(allocated))
    IN  IF Len(free_UAs) < nr_UAs
        THEN [success |-> FALSE, startUA |-> 0, FAT |-> r.FAT, HDD |-> r.HDD]
        ELSE [success |-> TRUE, startUA |-> allocated[1], FAT |-> r.FAT, HDD |-> r.HDD]

allocateUAsAndWrite(fat, hdd, content, nr_UAs) ==
    LET free_UAs == FreeUAs(fat)
    IN  IF Len(free_UAs) < nr_UAs
        THEN [success |-> FALSE, startUA |-> 0, FAT |-> fat, HDD |-> hdd]
        ELSE LET allocated == SubSeq(free_UAs, 1, nr_UAs)
                 r == AllocLoop(fat, hdd, content, allocated, 0, nr_UAs)
             IN  [success |-> TRUE, startUA |-> allocated[1],
                  FAT |-> r.FAT, HDD |-> r.HDD]

(***************************************************************************)
(* Handlers.  A volume is [FAT, ROOT, HDD]; a handler returns the volume   *)
(* it leaves and the first line it prints.  FAT and HDD are globals that   *)
(* allocateUAsAndWrite updates in place, so after a call the handler       *)
(* leaves whatever the call left, whether or not it succeeded.             *)
(***************************************************************************)
Reply(fat, root, hdd, msg) == [FAT |-> fat, ROOT |-> root, HDD |-> hdd, out |-> msg]

handleCREATE(fat, root, hdd, fileName, size, mode) ==
    LET nm == splitFileName(fileName)
        nr_UAs == Ceil(size, UA)
        content == generateContent(size, mode)
        a == allocateUAsAndWrite(fat, hdd, content, nr_UAs)
    IN  IF nm.none
        THEN Reply(fat, root, hdd, "the file name must include its extension")
        ELSE IF findFileIndex(root, nm.name, nm.extension) # 0
        THEN Reply(fat, root, hdd, "already exists")
        ELSE IF content = <<>>
        THEN Reply(fat, root, hdd, "invalid mode")
        ELSE IF ~a.success
        THEN Reply(a.FAT, root, a.HDD, "not enough free UAs for this file")
        ELSE Reply(a.FAT,
                   Append(root, File(nm.name, nm.extension, size, a.startUA, 0)),
                   a.HDD, "created successfully")

(***************************************************************************)
(* Chain walks.  Both loops of the program are unbounded (`while ... !=    *)
(* EOF`).  A walk of the model takes at most WalkBound steps; a walk that  *)
(* has not reached EOF by then never will (DELETE's walk changes FAT at    *)
(* most TOTAL_UAs times and revisits a unit within TOTAL_UAs steps after   *)
(* that), and the handler does not return.                                 *)
(***************************************************************************)
WalkBound == 2 * TOTAL_UAs + 2

\* Mutant of FreeWalk: only the start unit is freed.
FreeWalk_FirstOnly(fat, startUA, fuel) ==
    [returns |-> TRUE, FAT |-> IF startUA = EOF THEN fat ELSE [fat EXCEPT ![startUA] = FREE]]

\* Mutant of FreeWalk: the loop tests the unit's mark, so the EOF unit stays.
RECURSIVE FreeWalk_KeepsLast(_, _, _)
FreeWalk_KeepsLast(fat, startUA, fuel) ==
    IF fat[startUA] = EOF THEN [returns |-> TRUE, FAT |-> fat]
    ELSE IF fuel = 0 THEN [returns |-> FALSE, FAT |-> fat]
    ELSE FreeWalk_KeepsLast([fat EXCEPT ![startUA] = FREE], fat[startUA], fuel - 1)

\* Mutant of FreeWalk: the loop stops at a FREE unit, so it follows the EOF
\* mark as if it were a link.
RECURSIVE FreeWalk_PastEOF(_, _, _)
FreeWalk_PastEOF(fat, startUA, fuel) ==
    IF fat[startUA] = FREE THEN [returns |-> TRUE, FAT |-> fat]
    ELSE IF fuel = 0 THEN [returns |-> FALSE, FAT |-> fat]
    ELSE FreeWalk_PastEOF([fat EXCEPT ![startUA] = FREE], fat[startUA], fuel - 1)

\* lines 180-183
RECURSIVE FreeWalk(_, _, _)
FreeWalk(fat, startUA, fuel) ==
    IF startUA = EOF THEN [returns |-> TRUE, FAT |-> fat]
    ELSE IF fuel = 0 THEN [returns |-> FALSE, FAT |-> fat]
    ELSE LET nextUA == fat[startUA]
         IN  FreeWalk([fat EXCEPT ![startUA] = FREE],
                      IF nextUA # EOF THEN nextUA ELSE EOF,
                      fuel - 1)

\* lines 250-259
RECURSIVE ReadWalk(_, _, _, _, _)
ReadWalk(fat, hdd, content, currentUA, fuel) ==
    IF currentUA = EOF THEN [returns |-> TRUE, content |-> content]
    ELSE IF fuel = 0 THEN [returns |-> FALSE, content |-> content]
    ELSE LET start == currentUA * UA
             end == start + UA
         IN  ReadWalk(fat, hdd, content \o PySlice(hdd, start, end),
                      fat[currentUA], fuel - 1)

\* del ROOT[index], index 1-based
DelAt(root, index) == SubSeq(root, 1, index - 1) \o SubSeq(root, index + 1, Len(root))

NoReturn == "(no return)"

handleDELETE(fat, root, hdd, fileName) ==
    LET nm == splitFileName(fileName)
        index == findFileIndex(root, nm.name, nm.extension)
    IN  IF nm.none
        THEN Reply(fat, root, hdd, "the file name must include its extension")
        ELSE IF index = 0
        THEN Reply(fat, root, hdd, "WARNING: file not found")
        ELSE LET w == FreeWalk(fat, root[index].startUA, WalkBound)
             IN  IF ~w.returns
                 THEN Reply(w.FAT, root, hdd, NoReturn)
                 ELSE Reply(w.FAT, DelAt(root, index), hdd, "deleted successfully.")

handleRENAME(fat, root, hdd, oldFileName, newFileName) ==
    LET old == splitFileName(oldFileName)
        new == splitFileName(newFileName)
        index == findFileIndex(root, old.name, old.extension)
    IN  IF old.none \/ new.none
        THEN Reply(fat, root, hdd, "file names must include their extensions")
        ELSE IF index = 0
        THEN Reply(fat, root, hdd, "WARNING: file not found")
        ELSE Reply(fat,
                   [root EXCEPT ![index].name = new.name,
                                ![index].extension = new.extension],
                   hdd, "renamed")

handleCOPY(fat, root, hdd, srcFileName, destFileName) ==
    LET src == splitFileName(srcFileName)
        dest == splitFileName(destFileName)
        srcIndex == findFileIndex(root, src.name, src.extension)
    IN  IF src.none \/ dest.none
        THEN Reply(fat, root, hdd, "file names must include their extensions")
        ELSE IF srcIndex = 0
        THEN Reply(fat, root, hdd, "WARNING: source file not found")
        ELSE IF findFileIndex(root, dest.name, dest.extension) # 0
        THEN Reply(fat, root, hdd, "WARNING: destination file already exists")
        ELSE LET srcFile == root[srcIndex]
                 size == srcFile.size
                 nr_UAs == Ceil(size, UA)
                 w == ReadWalk(fat, hdd, <<>>, srcFile.startUA, WalkBound)
                 a == allocateUAsAndWrite(fat, hdd, w.content, nr_UAs)
             IN  IF ~w.returns
                 THEN Reply(fat, root, hdd, NoReturn)
                 ELSE IF ~a.success
                 THEN Reply(a.FAT, root, a.HDD, "not enough free space to copy the file")
                 ELSE Reply(a.FAT,
                            Append(root, File(dest.name, dest.extension, size, a.startUA, 0)),
                            a.HDD, "copied successfully.")

\* handleDIR prints and changes nothing
handleDIR(fat, root, hdd) ==
    Reply(fat, root, hdd, IF Len(root) = 0 THEN "no files found" ELSE "(listing)")

(***************************************************************************)
(* The command loop: one action per command.  out is the first line the    *)
(* handler printed.  A handler that does not return ends the run.  Each    *)
(* action takes the handler's result r, computed once.                     *)
(***************************************************************************)
\* File names of the commands: a short one, one longer than both field
\* widths, the one it is truncated to, and one without a dot.
FileNames == {"a.b", "abcdefghi.txtx", "abcdefgh.txt", "ab"}
\* Mode keywords of the commands: two valid ones and an invalid one.  (The
\* third valid keyword, -ALFA, takes the same path through the handlers and
\* differs only in the byte values written.)
Modes == {"-NUM", "-HEX", "-BIN"}
Sizes == 0 .. MaxSize

\* The loop reads another command.
Reading == out # NoReturn /\ ncmd < MaxCmds

Init ==
    /\ FAT = [i \in Units |->
                IF i < UAs_for_FAT THEN FAT_RESERVED
                ELSE IF i < UAs_for_FAT + UAs_for_ROOT THEN ROOT_RESERVED
                ELSE FREE]
    /\ ROOT = <<>>
    /\ HDD = [i \in 1 .. HDD_SIZE |-> 0]
    /\ out = ""
    /\ ncmd = 0

DIR ==
    /\ Reading
    /\ \E r \in {handleDIR(FAT, ROOT, HDD)} :
          FAT' = r.FAT /\ ROOT' = r.ROOT /\ HDD' = r.HDD /\ out' = r.out
    /\ ncmd' = ncmd + 1

CREATE ==
    /\ Reading
    /\ \E fileName \in FileNames, size \in Sizes, mode \in Modes :
          \E r \in {handleCREATE(FAT, ROOT, HDD, fileName, size, mode)} :
              FAT' = r.FAT /\ ROOT' = r.ROOT /\ HDD' = r.HDD /\ out' = r.out
    /\ ncmd' = ncmd + 1

DELETE ==
    /\ Reading
    /\ \E fileName \in FileNames :
          \E r \in {handleDELETE(FAT, ROOT, HDD, fileName)} :
              FAT' = r.FAT /\ ROOT' = r.ROOT /\ HDD' = r.HDD /\ out' = r.out
    /\ ncmd' = ncmd + 1

RENAME ==
    /\ Reading
    /\ \E oldFileName \in FileNames, newFileName \in FileNames :
          \E r \in {handleRENAME(FAT, ROOT, HDD, oldFileName, newFileName)} :
              FAT' = r.FAT /\ ROOT' = r.ROOT /\ HDD' = r.HDD /\ out' = r.out
    /\ ncmd' = ncmd + 1

COPY ==
    /\ Reading
    /\ \E srcFileName \in FileNames, destFileName \in FileNames :
          \E r \in {handleCOPY(FAT, ROOT, HDD, srcFileName, destFileName)} :
              FAT' = r.FAT /\ ROOT' = r.ROOT /\ HDD' = r.HDD /\ out' = r.out
    /\ ncmd' = ncmd + 1

Next == DIR \/ CREATE \/ DELETE \/ RENAME \/ COPY

Spec == Init /\ [][Next]_vars

(***************************************************************************)
(* Vocabulary of the properties.  These read the tables the way a reader   *)
(* of the volume would, independently of the handlers' own loops.          *)
(***************************************************************************)
IsLink(v) == v \in Pool

\* The units met by following links from u: stops after the first unit
\* that holds no link, and after at most fuel units.
RECURSIVE ChainSeq(_, _, _)
ChainSeq(fat, u, fuel) ==
    IF fuel = 0 \/ u \notin Units THEN <<>>
    ELSE IF IsLink(fat[u]) THEN <<u>> \o ChainSeq(fat, fat[u], fuel - 1)
    ELSE <<u>>

ChainOf(fat, entry) == ChainSeq(fat, entry.startUA, TOTAL_UAs + 1)
ChainSet(fat, entry) == {ChainOf(fat, entry)[k] : k \in 1 .. Len(ChainOf(fat, entry))}

\* n = ceil(size / UA), stated without division
IsCeil(n, size) == n * UA >= size /\ (n - 1) * UA < size

RECURSIVE ReadUnits(_, _)
ReadUnits(hdd, us) ==
    IF us = <<>> THEN <<>>
    ELSE PySlice(hdd, us[1] * UA, us[1] * UA + UA) \o ReadUnits(hdd, Tail(us))

\* The file's bytes: its chain read unit by unit, truncated to its size.
ReadFile(fat, hdd, entry) == PySlice(ReadUnits(hdd, ChainOf(fat, entry)), 0, entry.size)

Alphabet(mode) ==
    IF mode = "-ALFA" THEN <<97, 98, 99, 100, 101, 102, 103, 104, 105, 106, 107, 108, 109,
                             110, 111, 112, 113, 114, 115, 116, 117, 118, 119, 120, 121, 122>>
    ELSE IF mode = "-NUM" THEN <<48, 49, 50, 51, 52, 53, 54, 55, 56, 57>>
    ELSE <<48, 49, 50, 51, 52, 53, 54, 55, 56, 57, 65, 66, 67, 68, 69, 70>>

Pattern(size, mode) == [k \in 1 .. size |-> Alphabet(mode)[((k - 1) % Len(Alphabet(mode))) + 1]]

FreeSet(fat) == {u \in Units : fat[u] = FREE}

\* This step is the handler's result r.
Took(r) == FAT' = r.FAT /\ ROOT' = r.ROOT /\ HDD' = r.HDD /\ out' = r.out

Live == 1 .. Len(ROOT)

SameKey(e, f) == e.name = f.name /\ e.extension = f.extension

(***************************************************************************)
(* C1: for every live entry, following the links from its start unit       *)
(* visits exactly ceil(size / UA) units, the last of them is marked EOF    *)
(* and no earlier one is.                                                  *)
(***************************************************************************)
ChainWellFormed ==
    \A i \in Live :
        LET c == ChainOf(FAT, ROOT[i])
        IN  /\ IsCeil(Len(c), ROOT[i].size)
            /\ Len(c) >= 1
            /\ FAT[c[Len(c)]] = EOF
            /\ \A k \in 1 .. (Len(c) - 1) : FAT[c[k]] # EOF

\* a live two-unit file whose chain skips over another file's unit
ChainWellFormedWitness ==
    \E i \in Live :
        /\ ROOT[i].size > UA
        /\ FAT[ROOT[i].startUA] > ROOT[i].startUA + 1
        /\ Len(ROOT) >= 2

(***************************************************************************)
(* C2: no unit lies on the chains of two different live entries.           *)
(***************************************************************************)
ChainsDisjoint ==
    \A i \in Live : \A j \in Live :
        i # j => ChainSet(FAT, ROOT[i]) \cap ChainSet(FAT, ROOT[j]) = {}

\* a COPY has just succeeded while two entries carry the same key, a key
\* only RENAME can store (its name is longer than NameWidth)
ChainsDisjointWitness ==
    /\ out = "copied successfully."
    /\ \E i \in Live : \E j \in Live :
        /\ i # j
        /\ SameKey(ROOT[i], ROOT[j])
        /\ Len(ROOT[i].name) > NameWidth

(***************************************************************************)
(* C3: Free units + ReservedSystem units + ReservedDirectory units + the   *)
(* units on live chains (summed entry by entry) make up the whole table.   *)
(***************************************************************************)
RECURSIVE ChainUnitsFrom(_)
ChainUnitsFrom(i) ==
    IF i > Len(ROOT) THEN 0 ELSE Len(ChainOf(FAT, ROOT[i])) + ChainUnitsFrom(i + 1)

UnitsAccounted ==
    Cardinality(FreeSet(FAT))
      + Cardinality({u \in Units : FAT[u] = FAT_RESERVED})
      + Cardinality({u \in Units : FAT[u] = ROOT_RESERVED})
      + ChainUnitsFrom(1)
    = TOTAL_UAs

\* a file has just been deleted while another is live and units are free
UnitsAccountedWitness ==
    /\ out = "deleted successfully."
    /\ Len(ROOT) >= 1
    /\ Cardinality(FreeSet(FAT)) >= 2

(***************************************************************************)
(* C4: no two live entries have the same stored (name, extension).         *)
(***************************************************************************)
UniqueKeys ==
    \A i \in Live : \A j \in Live : i # j => ~SameKey(ROOT[i], ROOT[j])

(***************************************************************************)
(* C5: a command that fails (key exists, invalid mode, too few free units, *)
(* missing key, missing source, existing destination) leaves FAT, ROOT and *)
(* HDD as they were.                                                       *)
(***************************************************************************)
Failures ==
    { "already exists", "invalid mode", "not enough free UAs for this file",
      "WARNING: file not found", "WARNING: source file not found",
      "WARNING: destination file already exists",
      "not enough free space to copy the file" }

FailureChangesNothing ==
    [][out' \in Failures => (FAT' = FAT /\ ROOT' = ROOT /\ HDD' = HDD)]_vars

\* a CREATE was refused for lack of space although some unit was free
FailureChangesNothingWitness ==
    /\ out = "not enough free UAs for this file"
    /\ FreeSet(FAT) # {}

(***************************************************************************)
(* C6: right after a successful CREATE name.ext S -MODE, the new file's    *)
(* chain read unit by unit and truncated to S is the first S bytes of the  *)
(* repeated alphabet of the mode.                                          *)
(***************************************************************************)
CreateReadsBack ==
    [][\A fileName \in FileNames, size \in Sizes, mode \in Modes :
          (out' = "created successfully"
             /\ Took(handleCREATE(FAT, ROOT, HDD, fileName, size, mode)))
          => ReadFile(FAT', HDD', ROOT'[Len(ROOT')]) = Pattern(size, mode)]_vars

(***************************************************************************)
(* C7: right after a successful COPY, the destination has the source's     *)
(* size and the same bytes as the source.                                  *)
(***************************************************************************)
CopyReadsSame ==
    [][\A srcFileName \in FileNames, destFileName \in FileNames :
          (out' = "copied successfully."
             /\ Took(handleCOPY(FAT, ROOT, HDD, srcFileName, destFileName)))
          => LET s == splitFileName(srcFileName)
                 src == ROOT'[findFileIndex(ROOT, s.name, s.extension)]
                 dest == ROOT'[Len(ROOT')]
             IN  /\ dest.size = src.size
                 /\ ReadFile(FAT', HDD', dest) = ReadFile(FAT', HDD', src)]_vars

(***************************************************************************)
(* C8: a successful CREATE followed at once by DELETE of the same file     *)
(* name leaves FAT as it was before the CREATE.                            *)
(***************************************************************************)
CreateDeleteRoundTrip ==
    [][\A fileName \in FileNames, size \in Sizes, mode \in Modes :
          (out' = "created successfully"
             /\ Took(handleCREATE(FAT, ROOT, HDD, fileName, size, mode)))
          => handleDELETE(FAT', ROOT', HDD', fileName).FAT = FAT]_vars

(***************************************************************************)
(* C9: an allocation of n units takes the n lowest free units of the pool, *)
(* starts the chain at the lowest and links them in ascending order up to  *)
(* EOF.                                                                    *)
(***************************************************************************)
LowestFree(fat, n) ==
    {u \in FreeSet(fat) \cap Pool :
        Cardinality({v \in FreeSet(fat) \cap Pool : v < u}) < n}

FirstFit ==
    [][out' \in {"created successfully", "copied successfully."}
        => LET new == ROOT'[Len(ROOT')]
               c == ChainOf(FAT', new)
               taken == {u \in Units : FAT'[u] # FAT[u]}
           IN  /\ IsCeil(Len(c), new.size)
               /\ taken = LowestFree(FAT, Len(c))
               /\ taken = {c[k] : k \in 1 .. Len(c)}
               /\ \A u \in taken : new.startUA <= u
               /\ \A k \in 1 .. (Len(c) - 1) : c[k] < c[k + 1]
               /\ FAT'[c[Len(c)]] = EOF]_vars

\* the last allocation had to skip over a unit in use
FirstFitWitness ==
    /\ out \in {"created successfully", "copied successfully."}
    /\ Len(ROOT) >= 2
    /\ FAT[ROOT[Len(ROOT)].startUA] > ROOT[Len(ROOT)].startUA + 1

(***************************************************************************)
(* C10: after a successful DELETE every unit of the deleted file's chain   *)
(* is FREE, every other unit is as before, the entry is gone from ROOT     *)
(* (the other entries keep their order), and no unit links to a FREE unit. *)
(***************************************************************************)
DeleteFreesChain ==
    [][\A fileName \in FileNames :
          (out' = "deleted successfully."
             /\ Took(handleDELETE(FAT, ROOT, HDD, fileName)))
          => \E i \in Live :
                /\ ROOT[i].name = splitFileName(fileName).name
                /\ ROOT[i].extension = splitFileName(fileName).extension
                /\ \A j \in 1 .. (i - 1) : ~SameKey(ROOT[j], ROOT[i])
                /\ Len(ROOT') = Len(ROOT) - 1
                /\ \A j \in 1 .. Len(ROOT') :
                      ROOT'[j] = IF j < i THEN ROOT[j] ELSE ROOT[j + 1]
                /\ \A u \in Units :
                      FAT'[u] = IF u \in ChainSet(FAT, ROOT[i]) THEN FREE ELSE FAT[u]
                /\ \A u \in Units : IsLink(FAT'[u]) => FAT'[FAT'[u]] # FREE]_vars

\* a file whose chain skipped over another file has just been deleted
DeleteFreesChainWitness ==
    /\ out = "deleted successfully."
    /\ \E u \in Pool :
          /\ FAT[u] = FREE /\ u + 2 \in Pool
          /\ FAT[u + 1] = EOF /\ FAT[u + 2] = FREE
    /\ Len(ROOT) >= 1

(***************************************************************************)
(* C11: the storage buffer always holds exactly TOTAL_UAs * UA bytes; no   *)
(* CREATE or COPY shortens or lengthens it.                                *)
(***************************************************************************)
BufferLengthFixed == Len(HDD) = HDD_SIZE

(***************************************************************************)
(* C12: every live entry's stored name has at most NameWidth characters    *)
(* and its stored extension at most ExtWidth, whichever of CREATE, COPY    *)
(* and RENAME wrote them.                                                  *)
(***************************************************************************)
FieldWidths ==
    \A i \in Live :
        /\ Len(ROOT[i].name) <= NameWidth
        /\ Len(ROOT[i].extension) <= ExtWidth

(***************************************************************************)
(* C13: a step leaves the bytes read from every file that is live before   *)
(* and after it unchanged.  Within one step a start unit identifies the    *)
(* entry: DELETE removes its entry, CREATE and COPY start theirs on a unit *)
(* that was FREE.                                                          *)
(***************************************************************************)
ContentStable ==
    [][\A i \in Live : \A j \in 1 .. Len(ROOT') :
          (ROOT'[j].startUA = ROOT[i].startUA /\ ROOT'[j].size = ROOT[i].size)
          => ReadFile(FAT', HDD', ROOT'[j]) = ReadFile(FAT, HDD, ROOT[i])]_vars

(***************************************************************************)
(* C14: right after a successful CREATE whose size is not a multiple of    *)
(* UA, reading the new file's whole chain returns whole units, and every   *)
(* byte past the declared size is zero.                                    *)
(***************************************************************************)
CreatePadsWithZero ==
    [][\A fileName \in FileNames, size \in Sizes, mode \in Modes :
          (out' = "created successfully"
             /\ size % UA # 0
             /\ Took(handleCREATE(FAT, ROOT, HDD, fileName, size, mode)))
          => LET new == ROOT'[Len(ROOT')]
                 c == ChainOf(FAT', new)
                 whole == ReadUnits(HDD', c)
             IN  /\ Len(whole) = Len(c) * UA
                 /\ \A k \in (size + 1) .. Len(whole) : whole[k] = 0]_vars

\* the mode keywords generateContent knows, and every keyword tried
ValidModes == {"-ALFA", "-NUM", "-HEX"}
AllModes == ValidModes \cup Modes

\* fileName has an extension and findFileIndex finds no entry for it
FreshKey(fileName) ==
    /\ ~splitFileName(fileName).none
    /\ findFileIndex(ROOT, splitFileName(fileName).name,
                     splitFileName(fileName).extension) = 0

PresentKey(fileName) ==
    /\ ~splitFileName(fileName).none
    /\ findFileIndex(ROOT, splitFileName(fileName).name,
                     splitFileName(fileName).extension) # 0

\* the free units are enough for size bytes
RoomFor(size) == \E n \in 0 .. Cardinality(FreeSet(FAT)) : IsCeil(n, size)

(***************************************************************************)
(* C15: a CREATE with a fresh key and a valid mode succeeds exactly when   *)
(* the FREE units number at least ceil(size / UA); a COPY with its source  *)
(* present and its destination absent succeeds exactly when they number    *)
(* at least ceil(source size / UA).                                        *)
(***************************************************************************)
SucceedsIffRoom ==
    /\ \A fileName \in FileNames, size \in Sizes, mode \in ValidModes :
          FreshKey(fileName)
          => (handleCREATE(FAT, ROOT, HDD, fileName, size, mode).out = "created successfully"
              <=> RoomFor(size))
    /\ \A srcFileName \in FileNames, destFileName \in FileNames :
          (PresentKey(srcFileName) /\ FreshKey(destFileName))
          => LET srcFile == ROOT[findFileIndex(ROOT, splitFileName(srcFileName).name,
                                               splitFileName(srcFileName).extension)]
             IN  handleCOPY(FAT, ROOT, HDD, srcFileName, destFileName).out
                    = "copied successfully."
                 <=> RoomFor(srcFile.size)

\* no unit occurs twice in the sequence c
NoRepeat(c) == \A k \in 1 .. Len(c) : \A l \in 1 .. Len(c) : k # l => c[k] # c[l]

(***************************************************************************)
(* C16: from every live entry's start unit the walks of DELETE and COPY    *)
(* return within TOTAL_UAs steps; the units they visit are pool units, all *)
(* different, each holding a link or EOF, never FREE or a reserved mark;   *)
(* and no command has failed to return from its walk.                      *)
(***************************************************************************)
WalksTerminate ==
    /\ out # NoReturn
    /\ \A i \in Live :
          LET c == ChainOf(FAT, ROOT[i])
          IN  /\ FreeWalk(FAT, ROOT[i].startUA, TOTAL_UAs).returns
              /\ ReadWalk(FAT, HDD, <<>>, ROOT[i].startUA, TOTAL_UAs).returns
              /\ Len(c) <= TOTAL_UAs
              /\ NoRepeat(c)
              /\ \A k \in 1 .. Len(c) :
                    /\ c[k] \in Pool
                    /\ FAT[c[k]] \notin {FREE, FAT_RESERVED, ROOT_RESERVED, BAD}
                    /\ FAT[c[k]] = EOF \/ IsLink(FAT[c[k]])

\* a COPY has walked its source's chain and found no room, while the pool
\* is full and holds a two-unit file whose chain skips another file's unit
WalksTerminateWitness ==
    /\ out = "not enough free space to copy the file"
    /\ FreeSet(FAT) = {}
    /\ \E i \in Live :
          /\ ROOT[i].size > UA
          /\ FAT[ROOT[i].startUA] > ROOT[i].startUA + 1

(***************************************************************************)
(* C17: a successful RENAME changes the name and extension of one entry,   *)
(* the first in ROOT that carries the old key, and nothing else: ROOT      *)
(* keeps its length and order, that entry keeps its size, start unit and   *)
(* attribute, every other entry, FAT and HDD stay as they were.            *)
(***************************************************************************)
RenameChangesOnlyKey ==
    [][\A oldFileName \in FileNames, newFileName \in FileNames :
          (out' = "renamed"
             /\ Took(handleRENAME(FAT, ROOT, HDD, oldFileName, newFileName)))
          => \E i \in Live :
                /\ ROOT[i].name = splitFileName(oldFileName).name
                /\ ROOT[i].extension = splitFileName(oldFileName).extension
                /\ \A j \in 1 .. (i - 1) : ~SameKey(ROOT[j], ROOT[i])
                /\ Len(ROOT') = Len(ROOT)
                /\ \A j \in Live : j # i => ROOT'[j] = ROOT[j]
                /\ ROOT'[i].size = ROOT[i].size
                /\ ROOT'[i].startUA = ROOT[i].startUA
                /\ ROOT'[i].attr = ROOT[i].attr
                /\ FAT' = FAT
                /\ HDD' = HDD]_vars

\* a RENAME has just given the first of two entries a new key while the
\* second still carries the key abcdefgh.txt
RenameChangesOnlyKeyWitness ==
    /\ out = "renamed"
    /\ Len(ROOT) >= 2
    /\ ROOT[2].name = "abcdefgh" /\ ROOT[2].extension = "txt"
    /\ ROOT[1].name = "a" /\ ROOT[1].extension = "b"
    /\ ROOT[1].size # ROOT[2].size

(***************************************************************************)
(* C18: FAT always has one slot per unit; the first UAs_for_FAT units are  *)
(* marked FAT_RESERVED and the next UAs_for_ROOT units ROOT_RESERVED, and  *)
(* no pool unit carries either mark; every live chain lies in the pool.    *)
(***************************************************************************)
ReservedLayout ==
    /\ DOMAIN FAT = Units
    /\ \A u \in Units :
          /\ u < UAs_for_FAT => FAT[u] = FAT_RESERVED
          /\ (UAs_for_FAT <= u /\ u < UAs_for_FAT + UAs_for_ROOT) => FAT[u] = ROOT_RESERVED
          /\ u >= UAs_for_FAT + UAs_for_ROOT => FAT[u] \notin {FAT_RESERVED, ROOT_RESERVED}
    /\ \A i \in Live : ChainSet(FAT, ROOT[i]) \subseteq Pool

\* a CREATE has just been refused for lack of room: the pool is used up
\* by files of which the last was created on units a DELETE had freed
ReservedLayoutWitness ==
    /\ out = "not enough free UAs for this file"
    /\ FreeSet(FAT) = {}
    /\ Len(ROOT) >= 2
    /\ ROOT[Len(ROOT)].startUA < ROOT[1].startUA

(***************************************************************************)
(* C19: a CREATE with a fresh key answers "invalid mode" exactly when its  *)
(* mode keyword is none of -ALFA, -NUM, -HEX; with a valid keyword it      *)
(* never does, for any size from 0 up.                                     *)
(***************************************************************************)
InvalidModeIffUnknownMode ==
    \A fileName \in FileNames, size \in Sizes, mode \in AllModes :
        FreshKey(fileName)
        => (handleCREATE(FAT, ROOT, HDD, fileName, size, mode).out = "invalid mode"
            <=> mode \notin ValidModes)

Sentinels == {FREE, FAT_RESERVED, ROOT_RESERVED, EOF, BAD}

(***************************************************************************)
(* C20: no pool index equals a sentinel; every live entry's start unit is  *)
(* a pool index; and whatever a pool unit holds besides FREE and EOF, its  *)
(* link, is a pool index.  So a link never compares equal to EOF.          *)
(***************************************************************************)
LinksArePoolIndices ==
    /\ Pool \cap Sentinels = {}
    /\ \A i \in Live : ROOT[i].startUA \in Pool
    /\ \A u \in Pool : FAT[u] \notin {FREE, EOF} => FAT[u] \in Pool

\* the file created last starts on the lowest pool unit and links it to
\* the highest
LinksArePoolIndicesWitness ==
    /\ out = "created successfully"
    /\ Len(ROOT) >= 2
    /\ ROOT[Len(ROOT)].startUA = UAs_for_FAT + UAs_for_ROOT
    /\ FAT[ROOT[Len(ROOT)].startUA] = TOTAL_UAs - 1

====
